---- MODULE Spec2Model ----
(***************************************************************************)
(* Model of evdev-utils (src/src/lib.rs): the AsyncDevice event stream     *)
(* over a libevdev handle, the merged stream of all_devices, and the two   *)
(* classifiers identify_keyboard and identify_mkb.                         *)
(*                                                                         *)
(* The device handle (libevdev) and the readiness reactor (async-io) are   *)
(* the environment.  A handle has a kernel queue kq (events the kernel     *)
(* holds for this client), a library buffer buf (events read from the fd   *)
(* and not yet delivered), and a readiness notification flag.              *)
(***************************************************************************)
EXTENDS Integers, Sequences, FiniteSets, TLC

\* ---------------------------------------------------------------- bounds
NPaths == 2          \* device nodes that exist under /dev/input
MaxInject == 2       \* kernel events delivered in one behaviour
MaxErrItems == 1     \* faulty polls a plain consumer keeps polling after

\* ------------------------------------------------- event code constants
KEY_RESERVED == 0
KEY_MICMUTE == 248
BTN_LEFT == 272
BTN_RIGHT == 273
BTN_MIDDLE == 274
BTN_SIDE == 275
BTN_EXTRA == 276
BTN_TRIGGER == 288
REL_X == 0
REL_Y == 1
REL_HWHEEL == 6
REL_WHEEL == 8
SYN_REPORT == 0

AllPaths == 1..NPaths
NoPath == 0

Ev(t, c, v) == [type |-> t, code |-> c, value |-> v]
NoEvent == Ev("none", 0, 0)

\* The events the kernel may deliver: a press and a release of the last key
\* of the keyboard range, a mouse button, a gamepad button, a mouse axis and
\* a sync marker.
Events ==
  { Ev("EV_KEY", KEY_MICMUTE, 1), Ev("EV_KEY", KEY_MICMUTE, 0),
    Ev("EV_KEY", BTN_LEFT, 0), Ev("EV_KEY", BTN_TRIGGER, 0),
    Ev("EV_REL", REL_X, 1), Ev("EV_SYN", SYN_REPORT, 0) }

\* std::io::Error values, tagged with the device they come from
IoErr(k, p) == [kind |-> k, dev |-> p]
NoErr == IoErr("", NoPath)

\* Result<InputEvent, io::Error>
Ok(e) == [tag |-> "Ok", ev |-> e, err |-> NoErr]
Err(x) == [tag |-> "Err", ev |-> NoEvent, err |-> x]
NoItem == [tag |-> "none", ev |-> NoEvent, err |-> NoErr]

\* Poll<Option<Item>>: AsyncDevice never builds Ready(None)
Pending == [kind |-> "Pending", item |-> NoItem]
Ready(i) == [kind |-> "Ready", item |-> i]

Min(a, b) == IF a < b THEN a ELSE b

VARIABLES
  op,          \* the operation this behaviour runs
  pc,          \* "start", "loop", "done", "abandoned"
  paths,       \* result of the glob enumeration, in order
  globErr,     \* the enumeration itself fails
  unopenable,  \* paths whose open fails
  handles,     \* open device handles (one AsyncDevice each)
  kq, buf, notified,   \* per-device handle state
  injected,    \* per device: events the kernel delivered
  yielded,     \* per device: items poll_next returned Ready
  merged,      \* items the merged stream forwarded to the classifier
  keeb_path, mouse_path,
  result,      \* return value of the operation
  enabled,     \* event types and codes enabled on the handle being set up
  last         \* observation of the latest poll_next call

vars == <<op, pc, paths, globErr, unopenable, handles, kq, buf, notified,
          injected, yielded, merged, keeb_path, mouse_path, result,
          enabled, last>>

devVars == <<kq, buf, notified>>

\* ------------------------------------------------------ the device handle
\* What the descriptor does at one poll: "none", reads of it fail ("read",
\* the device went away) or the readability wait fails ("wait").
Faults == {"none", "read", "wait"}

\* The handle state of device p at a poll with fault f, as one value.
Dev(p, f) == [id |-> p, kq |-> kq[p], buf |-> buf[p],
              notified |-> notified[p], err |-> f]

\* The events of the handle that were not delivered yet, oldest first.
Undelivered(d) == d.buf \o d.kq
Oldest(d) == IF Undelivered(d) = <<>> THEN NoEvent ELSE Head(Undelivered(d))

\* libevdev_has_event_pending: events are queued in the library, or the
\* queue is empty and the descriptor has data to read.
has_event_pending(d) ==
  Len(d.buf) > 0 \/ (Len(d.kq) > 0 /\ d.err # "read")

\* next_event that keeps only the first event of what one read pulled
next_event_drops_batch(d, n) ==
  IF Len(d.buf) > 0
    THEN [res |-> Ok(Head(d.buf)), dev |-> [d EXCEPT !.buf = Tail(@)]]
  ELSE IF d.err = "read"
    THEN [res |-> Err(IoErr("ENODEV", d.id)), dev |-> d]
  ELSE IF Len(d.kq) = 0
    THEN [res |-> Err(IoErr("WouldBlock", d.id)), dev |-> d]
  ELSE LET k == Min(n, Len(d.kq))
       IN [res |-> Ok(Head(d.kq)),
           dev |-> [d EXCEPT !.kq = SubSeq(d.kq, k + 1, Len(d.kq))]]

\* libevdev_next_event(NORMAL): deliver the head of the library queue; when
\* the queue is empty read the descriptor first, which pulls up to n of the
\* events the kernel holds; with nothing to read the result is EAGAIN.
next_event(d, n) ==
  IF Len(d.buf) > 0
    THEN [res |-> Ok(Head(d.buf)), dev |-> [d EXCEPT !.buf = Tail(@)]]
  ELSE IF d.err = "read"
    THEN [res |-> Err(IoErr("ENODEV", d.id)), dev |-> d]
  ELSE IF Len(d.kq) = 0
    THEN [res |-> Err(IoErr("WouldBlock", d.id)), dev |-> d]
  ELSE LET k == Min(n, Len(d.kq))
           got == SubSeq(d.kq, 1, k)
       IN [res |-> Ok(Head(got)),
           dev |-> [d EXCEPT !.buf = Tail(got),
                             !.kq = SubSeq(d.kq, k + 1, Len(d.kq))]]

\* Async::poll_readable: Ready(Ok) consumes the outstanding readiness
\* notification; a descriptor in error state is always reported readable.
poll_readable(d) ==
  IF d.err = "wait"
    THEN [res |-> Ready(Err(IoErr("EBADF", d.id))), dev |-> d]
  ELSE IF d.notified \/ d.err = "read"
    THEN [res |-> Ready(Ok(NoEvent)), dev |-> [d EXCEPT !.notified = FALSE]]
  ELSE [res |-> Pending, dev |-> d]

\* ------------------------------------------------- AsyncDevice::poll_next
\* The result carries the poll outcome, the handle state after the call,
\* the number of poll_readable calls and the number of would-block retries.
PollOut(r, d, w, b) == [res |-> r, dev |-> d, waits |-> w, retries |-> b]

\* poll_next without the has_event_pending branch: it always waits for the
\* descriptor before it decodes
poll_next_waits_first(d, n) ==
  LET w == poll_readable(d) IN
    IF w.res.kind = "Pending" THEN PollOut(Pending, w.dev, 1, 0)
    ELSE IF w.res.item.tag = "Err" THEN PollOut(w.res, w.dev, 1, 0)
    ELSE LET r == next_event(w.dev, n) IN
      IF r.res.tag = "Err" /\ r.res.err.kind = "WouldBlock"
        THEN PollOut(Pending, r.dev, 2, 1)
      ELSE PollOut(Ready(r.res), r.dev, 1, 0)

\* poll_next without the would-block test: every decode result is an item
poll_next_surfaces_would_block(d, n) ==
  IF has_event_pending(d)
    THEN LET r == next_event(d, n) IN PollOut(Ready(r.res), r.dev, 0, 0)
  ELSE LET w == poll_readable(d) IN
    IF w.res.kind = "Pending" THEN PollOut(Pending, w.dev, 1, 0)
    ELSE IF w.res.item.tag = "Err" THEN PollOut(w.res, w.dev, 1, 0)
    ELSE LET r == next_event(w.dev, n) IN PollOut(Ready(r.res), r.dev, 1, 0)

\* poll_next that ends the stream when the decode would block
poll_next_ends_on_would_block(d, n) ==
  IF has_event_pending(d)
    THEN LET r == next_event(d, n) IN PollOut(Ready(r.res), r.dev, 0, 0)
  ELSE LET w == poll_readable(d) IN
    IF w.res.kind = "Pending" THEN PollOut(Pending, w.dev, 1, 0)
    ELSE IF w.res.item.tag = "Err" THEN PollOut(w.res, w.dev, 1, 0)
    ELSE LET r == next_event(w.dev, n) IN
      IF r.res.tag = "Err" /\ r.res.err.kind = "WouldBlock"
        THEN PollOut(Ready(NoItem), r.dev, 1, 0)
      ELSE PollOut(Ready(r.res), r.dev, 1, 0)

\* poll_next that takes every failure for a would-block and waits again
poll_next_swallows_errors(d, n) ==
  IF has_event_pending(d)
    THEN LET r == next_event(d, n) IN PollOut(Ready(r.res), r.dev, 0, 0)
  ELSE LET w == poll_readable(d) IN
    IF w.res.kind = "Pending" \/ w.res.item.tag = "Err"
      THEN PollOut(Pending, w.dev, 1, 0)
    ELSE LET r == next_event(w.dev, n) IN
      IF r.res.tag = "Ok" THEN PollOut(Ready(r.res), r.dev, 1, 0)
      ELSE PollOut(Pending, r.dev, 2, 1)

RECURSIVE poll_next(_, _)
poll_next(d, n) ==
  IF has_event_pending(d)
    THEN LET r == next_event(d, n) IN PollOut(Ready(r.res), r.dev, 0, 0)
  ELSE LET w == poll_readable(d) IN
    IF w.res.kind = "Pending" THEN PollOut(Pending, w.dev, 1, 0)
    ELSE IF w.res.item.tag = "Err" THEN PollOut(w.res, w.dev, 1, 0)
    ELSE LET r == next_event(w.dev, n) IN
      IF r.res.tag = "Ok" THEN PollOut(Ready(r.res), r.dev, 1, 0)
      ELSE IF r.res.err.kind = "WouldBlock"
        THEN LET again == poll_next(r.dev, n)
             IN PollOut(again.res, again.dev, again.waits + 1,
                        again.retries + 1)
      ELSE PollOut(Ready(r.res), r.dev, 1, 0)

\* ----------------------------------------------------------- all_devices
\* IdentifyError
IdErr(k, e) == [kind |-> k, source |-> e]
NoIdErr == IdErr("", NoErr)

\* AsyncDevice::new: File::open and the two wrappers, or the I/O error
AsyncDevice_new(p, bad) ==
  IF p \in bad THEN [tag |-> "Err", err |-> IoErr("ENOENT", p)]
  ELSE [tag |-> "Ok", err |-> NoErr]

\* paths.into_iter().map(AsyncDevice::new).collect::<Result<Vec<_>, _>>():
\* the devices opened so far, stopping at the first path that fails
RECURSIVE open_all_skips_failed(_, _, _)
\* a construction that leaves out the devices it cannot open
open_all_skips_failed(ps, bad, acc) ==
  IF ps = <<>> THEN [tag |-> "Ok", devices |-> acc, error |-> NoIdErr]
  ELSE IF AsyncDevice_new(Head(ps), bad).tag = "Err"
    THEN open_all_skips_failed(Tail(ps), bad, acc)
  ELSE open_all_skips_failed(Tail(ps), bad, Append(acc, Head(ps)))

RECURSIVE open_all(_, _, _)
open_all(ps, bad, acc) ==
  IF ps = <<>> THEN [tag |-> "Ok", devices |-> acc, error |-> NoIdErr]
  ELSE LET r == AsyncDevice_new(Head(ps), bad) IN
    IF r.tag = "Err"
      THEN [tag |-> "Err", devices |-> <<>>,
            error |-> IdErr("AsyncDeviceNew", r.err)]
    ELSE open_all(Tail(ps), bad, Append(acc, Head(ps)))

all_devices(ps, gerr, bad) ==
  IF gerr THEN [tag |-> "Err", devices |-> <<>>,
                error |-> IdErr("GlobError", NoErr)]
  ELSE open_all(ps, bad, <<>>)

\* the tagging closure with a path that is not the one of its own source
TagItem_first_path(path, item) ==
  [path |-> IF item.tag = "Ok" THEN 1 ELSE NoPath, item |-> item]

\* stream.map(move |event| event.map(|event| (path.clone(), event))):
\* an event is paired with the path of its source, an error passes as it is
TagItem(path, item) ==
  [path |-> IF item.tag = "Ok" THEN path ELSE NoPath, item |-> item]

Range(s) == {s[i] : i \in 1..Len(s)}

\* ------------------------------------------------------------ classifiers
\* the match without the test of the value: a press ends the loop
keyboard_match_any_value(ev) ==
  /\ ev.type = "EV_KEY"
  /\ ev.code >= KEY_RESERVED
  /\ ev.code <= KEY_MICMUTE

\* the match without the test of the code range
keyboard_match_any_code(ev) ==
  /\ ev.type = "EV_KEY"
  /\ ev.value = 0

\* identify_keyboard, lines 155-160: the event that ends the loop
keyboard_match(ev) ==
  /\ ev.type = "EV_KEY"
  /\ ev.code >= KEY_RESERVED
  /\ ev.code <= KEY_MICMUTE
  /\ ev.value = 0

\* identify_mkb, lines 181-189: the first match arm
mouse_indicative(ev) ==
  \/ ev.type = "EV_KEY" /\
       ev.code \in {BTN_LEFT, BTN_RIGHT, BTN_MIDDLE, BTN_EXTRA, BTN_SIDE}
  \/ ev.type = "EV_REL" /\ ev.code \in {REL_X, REL_Y, REL_WHEEL, REL_HWHEEL}

\* the slots after one event when the keyboard arm takes only the codes of
\* the keyboard range
mkb_update_keyboard_range(slots, path, ev) ==
  IF mouse_indicative(ev)
    THEN IF slots.mouse = NoPath THEN [slots EXCEPT !.mouse = path]
         ELSE slots
  ELSE IF ev.type = "EV_KEY" /\ ev.code <= KEY_MICMUTE
    THEN IF ev.value = 0 /\ slots.keeb = NoPath
           THEN [slots EXCEPT !.keeb = path]
         ELSE slots
  ELSE slots

\* the slots after one event when the keyboard arm is the else-branch of
\* "mouse-indicative and the mouse slot is empty"
mkb_update_else_branch(slots, path, ev) ==
  IF mouse_indicative(ev) /\ slots.mouse = NoPath
    THEN [slots EXCEPT !.mouse = path]
  ELSE IF ev.type = "EV_KEY"
    THEN IF ev.value = 0 /\ slots.keeb = NoPath
           THEN [slots EXCEPT !.keeb = path]
         ELSE slots
  ELSE slots

\* the slots after one event when a qualifying event always takes its slot
mkb_update_overwrites(slots, path, ev) ==
  IF mouse_indicative(ev) THEN [slots EXCEPT !.mouse = path]
  ELSE IF ev.type = "EV_KEY" /\ ev.value = 0
    THEN [slots EXCEPT !.keeb = path]
  ELSE slots

\* identify_mkb, lines 180-201: the slots after one event
mkb_update(slots, path, ev) ==
  IF mouse_indicative(ev)
    THEN IF slots.mouse = NoPath THEN [slots EXCEPT !.mouse = path]
         ELSE slots
  ELSE IF ev.type = "EV_KEY"
    THEN IF ev.value = 0 /\ slots.keeb = NoPath
           THEN [slots EXCEPT !.keeb = path]
         ELSE slots
  ELSE slots

\* the test after one event that lets the call return when one slot is filled
mkb_done_either(slots) == slots.keeb # NoPath \/ slots.mouse # NoPath

\* identify_mkb, line 202: both slots are filled
mkb_done(slots) == slots.keeb # NoPath /\ slots.mouse # NoPath

\* a pull that passes over an error item and goes on with the loop
try_next_skips_errors(item) ==
  IF item.tag = "none"
    THEN [stop |-> TRUE, error |-> IdErr("EventStreamEnded", NoErr)]
  ELSE [stop |-> FALSE, error |-> NoIdErr]

\* a pull that reports the end of the stream as a read error
try_next_end_as_read_error(item) ==
  IF item.tag \in {"Err", "none"}
    THEN [stop |-> TRUE, error |-> IdErr("ReadEvent", item.err)]
  ELSE [stop |-> FALSE, error |-> NoIdErr]

\* streams.try_next().await.map_err(ReadEvent)?.ok_or_else(EventStreamEnded)?
\* (lines 150-154 and 175-179) on the item the merged stream gives, NoItem
\* standing for its end: whether the call returns here, and with what error
try_next(item) ==
  IF item.tag = "Err"
    THEN [stop |-> TRUE, error |-> IdErr("ReadEvent", item.err)]
  ELSE IF item.tag = "none"
    THEN [stop |-> TRUE, error |-> IdErr("EventStreamEnded", NoErr)]
  ELSE [stop |-> FALSE, error |-> NoIdErr]

\* a merged stream that ends whatever sources are left
merged_ended_early(live) == TRUE

\* futures::stream::select_all (line 137) ends when no source is left: a
\* source leaves when it ends, so over no source at all it ends at once
merged_ended(live) == live = {}

\* return values
NoResult == [kind |-> "none", keeb |-> NoPath, mouse |-> NoPath,
             error |-> NoIdErr]
RetPath(p) == [kind |-> "Ok", keeb |-> p, mouse |-> NoPath, error |-> NoIdErr]
RetPair(k, m) == [kind |-> "Ok", keeb |-> k, mouse |-> m, error |-> NoIdErr]
RetErr(e) == [kind |-> "Err", keeb |-> NoPath, mouse |-> NoPath, error |-> e]

NoPoll == [path |-> NoPath, fault |-> "none", pending |-> FALSE,
           buffered |-> FALSE, oldest |-> NoEvent,
           res |-> Pending, waits |-> 0, retries |-> 0]

\* ------------------------------------------------------------------ Init
Enablers == {"enable_keys", "enable_mouse", "enable_gamepad"}
Ops == {"stream", "identify_keyboard", "identify_mkb"} \cup Enablers
Classifiers == {"identify_keyboard", "identify_mkb"}

RECURSIVE SortedSeq(_)
SortedSeq(S) ==
  IF S = {} THEN <<>>
  ELSE LET m == CHOOSE x \in S : \A y \in S : x <= y
       IN <<m>> \o SortedSeq(S \ {m})

\* glob returns the matching paths in alphabetical order
Enumerations == {SortedSeq(S) : S \in SUBSET AllPaths}

\* Nothing is open and nothing was delivered before the operation starts.
InitRest ==
  /\ pc = "start"
  /\ unopenable \in SUBSET Range(paths)
  /\ handles = {}
  /\ kq = [p \in AllPaths |-> <<>>]
  /\ buf = [p \in AllPaths |-> <<>>]
  /\ notified = [p \in AllPaths |-> FALSE]
  /\ injected = [p \in AllPaths |-> <<>>]
  /\ yielded = [p \in AllPaths |-> <<>>]
  /\ merged = <<>>
  /\ keeb_path = NoPath
  /\ mouse_path = NoPath
  /\ result = NoResult
  /\ enabled = {}
  /\ last = NoPoll

\* A call of identify_keyboard or identify_mkb
Init ==
  /\ op \in Classifiers
  /\ globErr \in BOOLEAN
  /\ paths \in Enumerations
  /\ globErr => paths = <<>>
  /\ InitRest

\* A caller that opens one device and polls its stream
InitSource ==
  /\ op = "stream"
  /\ globErr = FALSE
  /\ paths \in {e \in Enumerations : Len(e) = 1}
  /\ InitRest

\* -------------------------------------------------------------- helpers
RECURSIVE SumLen(_, _)
SumLen(f, S) ==
  IF S = {} THEN 0
  ELSE LET x == CHOOSE y \in S : TRUE IN Len(f[x]) + SumLen(f, S \ {x})

ErrItems(s) == Cardinality({i \in 1..Len(s) : s[i].tag = "Err"})

\* The number of events one read of the descriptor of p may pull: at least
\* one, at most all the kernel holds.
Batch(p) == 1..(IF Len(kq[p]) > 1 THEN Len(kq[p]) ELSE 1)

\* The handle state after poll_next on device p
Polled(p, out) ==
  /\ kq' = [kq EXCEPT ![p] = out.dev.kq]
  /\ buf' = [buf EXCEPT ![p] = out.dev.buf]
  /\ notified' = [notified EXCEPT ![p] = out.dev.notified]
  /\ UNCHANGED injected

\* What the plain consumer saw of its latest poll of p under fault f
Observed(p, f, out) ==
  [path |-> p, fault |-> f, pending |-> has_event_pending(Dev(p, f)),
   buffered |-> Len(buf[p]) > 0, oldest |-> Oldest(Dev(p, f)),
   res |-> out.res, waits |-> out.waits, retries |-> out.retries]

\* a return that leaves the device handles of the stream open
Return_leaks(r) ==
  /\ result' = r
  /\ pc' = "done"
  /\ handles' = handles

\* The call returns r: its stream and every device handle are dropped
Return(r) ==
  /\ result' = r
  /\ pc' = "done"
  /\ handles' = {}

\* ---------------------------------------------------------- environment
\* The kernel delivers event e to the client of device p and the reactor
\* marks the descriptor readable.
Inject(p, e) ==
  /\ pc = "loop"
  /\ p \in handles
  /\ SumLen(injected, AllPaths) < MaxInject
  /\ kq' = [kq EXCEPT ![p] = Append(@, e)]
  /\ injected' = [injected EXCEPT ![p] = Append(@, e)]
  /\ notified' = [notified EXCEPT ![p] = TRUE]
  /\ UNCHANGED enabled
  /\ UNCHANGED <<op, pc, paths, globErr, unopenable, handles, buf, yielded,
                 merged, keeb_path, mouse_path, result, last>>

\* ------------------------------------------------- a plain stream consumer
\* AsyncDevice::new(path) by a caller that then polls the stream
stream_open ==
  /\ op = "stream"
  /\ pc = "start"
  /\ LET r == AsyncDevice_new(paths[1], unopenable) IN
       IF r.tag = "Err"
         THEN Return(RetErr(IdErr("Io", r.err)))
       ELSE /\ handles' = {paths[1]}
            /\ pc' = "loop"
            /\ UNCHANGED result
  /\ UNCHANGED enabled
  /\ UNCHANGED <<op, paths, globErr, unopenable, devVars, injected, yielded,
                 merged, keeb_path, mouse_path, last>>

\* StreamExt::next on the AsyncDevice: one poll_next
stream_next(p, n, f) ==
  /\ op = "stream"
  /\ pc = "loop"
  /\ p \in handles
  /\ f # "none" => ErrItems(yielded[p]) < MaxErrItems
  /\ LET out == poll_next(Dev(p, f), n) IN
       /\ Polled(p, out)
       /\ last' = Observed(p, f, out)
       /\ yielded' = IF out.res.kind = "Ready"
                       THEN [yielded EXCEPT ![p] = Append(@, out.res.item)]
                     ELSE yielded
  /\ UNCHANGED enabled
  /\ UNCHANGED <<op, pc, paths, globErr, unopenable, handles, merged,
                 keeb_path, mouse_path, result>>

\* ------------------------------------------------------ the merged stream
\* let mut streams = all_devices()?  (lines 141 and 166): on an error the
\* call returns it, and the devices left open are those all_devices left
Construct ==
  /\ pc = "start"
  /\ LET r == all_devices(paths, globErr, unopenable) IN
       /\ handles' = Range(r.devices)
       /\ IF r.tag = "Err"
            THEN /\ result' = RetErr(r.error)
                 /\ pc' = "done"
          ELSE /\ pc' = "loop"
               /\ UNCHANGED result
  /\ UNCHANGED enabled
  /\ UNCHANGED <<op, paths, globErr, unopenable, devVars, injected, yielded,
                 merged, keeb_path, mouse_path, last>>

\* the source ended: its poll_next returned Ready(None)
Ended(out) == out.res.kind = "Ready" /\ out.res.item.tag = "none"

\* select_all polls source p.  A Pending source changes only its handle; a
\* Ready item is logged as yielded by p and forwarded, tagged, as the next
\* item of the merged stream; a source that ends forwards nothing.
PullFrom(p, out) ==
  /\ Polled(p, out)
  /\ IF out.res.kind = "Ready" /\ ~Ended(out)
       THEN /\ yielded' = [yielded EXCEPT ![p] = Append(@, out.res.item)]
            /\ merged' = Append(merged, TagItem(p, out.res.item))
     ELSE UNCHANGED <<yielded, merged>>

\* ------------------------------------------------------ identify_keyboard
identify_keyboard_start ==
  /\ op = "identify_keyboard"
  /\ Construct

\* one turn of the loop at lines 142-161, pulling from source p
identify_keyboard_next(p, n, f) ==
  /\ op = "identify_keyboard"
  /\ pc = "loop"
  /\ p \in handles
  /\ LET out == poll_next(Dev(p, f), n)
         it == TagItem(p, out.res.item)
     IN /\ PullFrom(p, out)
        /\ IF out.res.kind = "Pending"
             THEN UNCHANGED <<pc, handles, result>>
           ELSE IF Ended(out)
             THEN /\ handles' = handles \ {p}
                  /\ UNCHANGED <<pc, result>>
           ELSE IF try_next(it.item).stop
             THEN Return(RetErr(try_next(it.item).error))
           ELSE IF keyboard_match(it.item.ev)
             THEN Return(RetPath(it.path))
           ELSE UNCHANGED <<pc, handles, result>>
  /\ UNCHANGED enabled
  /\ UNCHANGED <<op, paths, globErr, unopenable, keeb_path, mouse_path,
                 last>>

\* the merged stream ended: try_next gives Ok(None)
identify_keyboard_ended ==
  /\ op = "identify_keyboard"
  /\ pc = "loop"
  /\ merged_ended(handles)
  /\ Return(RetErr(try_next(NoItem).error))
  /\ UNCHANGED enabled
  /\ UNCHANGED <<op, paths, globErr, unopenable, devVars, injected, yielded,
                 merged, keeb_path, mouse_path, last>>

\* ----------------------------------------------------------- identify_mkb
identify_mkb_start ==
  /\ op = "identify_mkb"
  /\ Construct

\* one turn of the loop at lines 167-205, pulling from source p
identify_mkb_next(p, n, f) ==
  /\ op = "identify_mkb"
  /\ pc = "loop"
  /\ p \in handles
  /\ LET out == poll_next(Dev(p, f), n)
         it == TagItem(p, out.res.item)
         slots == mkb_update([keeb |-> keeb_path, mouse |-> mouse_path],
                             it.path, it.item.ev)
     IN /\ PullFrom(p, out)
        /\ IF out.res.kind = "Pending"
             THEN UNCHANGED <<pc, handles, result, keeb_path, mouse_path>>
           ELSE IF Ended(out)
             THEN /\ handles' = handles \ {p}
                  /\ UNCHANGED <<pc, result, keeb_path, mouse_path>>
           ELSE IF try_next(it.item).stop
             THEN /\ Return(RetErr(try_next(it.item).error))
                  /\ UNCHANGED <<keeb_path, mouse_path>>
           ELSE /\ keeb_path' = slots.keeb
                /\ mouse_path' = slots.mouse
                /\ IF mkb_done(slots)
                     THEN Return(RetPair(slots.keeb, slots.mouse))
                   ELSE UNCHANGED <<pc, handles, result>>
  /\ UNCHANGED enabled
  /\ UNCHANGED <<op, paths, globErr, unopenable, last>>

identify_mkb_ended ==
  /\ op = "identify_mkb"
  /\ pc = "loop"
  /\ merged_ended(handles)
  /\ Return(RetErr(try_next(NoItem).error))
  /\ UNCHANGED enabled
  /\ UNCHANGED <<op, paths, globErr, unopenable, devVars, injected, yielded,
                 merged, keeb_path, mouse_path, last>>

\* The task that runs the call is dropped while the call waits for an
\* event: the stream is dropped and with it every device handle.
Abandon ==
  /\ op \in Classifiers
  /\ pc = "loop"
  /\ pc' = "abandoned"
  /\ handles' = {}
  /\ UNCHANGED enabled
  /\ UNCHANGED <<op, paths, globErr, unopenable, devVars, injected, yielded,
                 merged, keeb_path, mouse_path, result, last>>

Next ==
  \/ \E p \in AllPaths, e \in Events : Inject(p, e)
  \/ identify_keyboard_start
  \/ \E p \in AllPaths, f \in Faults : \E n \in Batch(p) :
       identify_keyboard_next(p, n, f)
  \/ identify_keyboard_ended
  \/ identify_mkb_start
  \/ \E p \in AllPaths, f \in Faults : \E n \in Batch(p) :
       identify_mkb_next(p, n, f)
  \/ identify_mkb_ended

\* The classifiers over the merged stream of all devices
Spec == Init /\ [][Next]_vars

NextCancel ==
  \/ Next
  \/ Abandon

\* The classifiers, run by a task that may be dropped
SpecCancel == Init /\ [][NextCancel]_vars

NextSource ==
  \/ \E p \in AllPaths, e \in Events : Inject(p, e)
  \/ stream_open
  \/ \E p \in AllPaths, f \in Faults : \E n \in Batch(p) :
       stream_next(p, n, f)

\* One AsyncDevice polled as a stream
SpecSource == InitSource /\ [][NextSource]_vars

TypeOK ==
  /\ op \in Ops
  /\ pc \in {"start", "loop", "done", "abandoned"}
  /\ handles \subseteq Range(paths)
  /\ keeb_path \in AllPaths \cup {NoPath}
  /\ mouse_path \in AllPaths \cup {NoPath}

\* ======================================================= properties
Last(s) == s[Len(s)]

RECURSIVE OkEvents(_)
\* the events of the Ok items of a sequence of items, in order
OkEvents(s) ==
  IF s = <<>> THEN <<>>
  ELSE IF Head(s).tag = "Ok" THEN <<Head(s).ev>> \o OkEvents(Tail(s))
  ELSE OkEvents(Tail(s))

\* C1: a poll_next that starts while has_event_pending is true never returns
\* Pending: it returns the oldest undelivered event at once and does not
\* consult the readability of the descriptor.
C1_NoSuspendWhilePending ==
  (last.path # NoPath /\ last.pending) =>
    /\ last.res = Ready(Ok(last.oldest))
    /\ last.oldest # NoEvent
    /\ last.waits = 0

\* a poll served an event out of the library buffer
C1_Witness ==
  /\ last.path # NoPath
  /\ last.buffered
  /\ last.res.kind = "Ready"
  /\ last.res.item.tag = "Ok"

\* C2: for an open device the events yielded so far, followed by the events
\* still buffered in the handle and those still in the kernel, are exactly
\* the events the kernel delivered, in order: nothing is lost, duplicated or
\* reordered, also when one read pulls a batch.
C2_YieldsDeliveredSequence ==
  \A p \in handles :
    OkEvents(yielded[p]) \o buf[p] \o kq[p] = injected[p]

\* two events pulled by one read were both yielded, the second one out of
\* the buffer, and nothing is left
C2_Witness ==
  /\ last.path # NoPath
  /\ last.buffered
  /\ Len(injected[last.path]) = 2
  /\ OkEvents(yielded[last.path]) = injected[last.path]

\* C3: a would-block decode after a readability notification is never an
\* item of the stream and never the end of the stream: the poll starts over
\* and waits for the descriptor again, and the number of events yielded and
\* undelivered stays the number of kernel events.
C3_WouldBlockRetried ==
  /\ \A p \in AllPaths : \A i \in 1..Len(yielded[p]) :
       /\ yielded[p][i].tag \in {"Ok", "Err"}
       /\ yielded[p][i].err.kind # "WouldBlock"
  /\ last.res.kind = "Ready" => last.res.item.tag \in {"Ok", "Err"}
  /\ last.retries > 0 => last.waits = last.retries + 1
  /\ \A p \in handles :
       Len(OkEvents(yielded[p])) + Len(buf[p]) + Len(kq[p])
         = Len(injected[p])

\* a poll met a would-block after a notification, with an event yielded
\* before it
C3_Witness ==
  /\ last.path # NoPath
  /\ last.retries = 1
  /\ Len(yielded[last.path]) >= 1

\* C4: when nothing is pending, a failing readability wait and a decode
\* that fails with anything but would-block make poll_next return that
\* error as an item at once, without a retry.
C4_ErrorsYielded ==
  (last.path # NoPath /\ ~last.pending) =>
    /\ last.fault = "wait" =>
         /\ last.res = Ready(Err(IoErr("EBADF", last.path)))
         /\ last.retries = 0
    /\ last.fault = "read" =>
         /\ last.res = Ready(Err(IoErr("ENODEV", last.path)))
         /\ last.retries = 0
    /\ last.fault # "none" => Last(yielded[last.path]) = last.res.item

\* a decode failed with an error that is not would-block
C4_Witness ==
  /\ last.path # NoPath
  /\ last.fault = "read"
  /\ last.res.kind = "Ready"
  /\ last.res.item.tag = "Err"

RECURSIVE ItemsOf(_, _)
\* the items of the merged stream that carry path p, in order
ItemsOf(s, p) ==
  IF s = <<>> THEN <<>>
  ELSE IF Head(s).path = p THEN <<Head(s).item>> \o ItemsOf(Tail(s), p)
  ELSE ItemsOf(Tail(s), p)

\* C5 as stated: the items of the merged stream tagged with the path of a
\* source are exactly the items that source yielded, in order.
C5_EveryItemTagged ==
  \A p \in AllPaths : ItemsOf(merged, p) = yielded[p]

\* C5 amended: the merged stream has one item per item yielded by a source;
\* the events tagged with the path of a source are exactly the events that
\* source yielded, in order; an error item is forwarded once as well, but
\* with no path, as the item that source yielded last.
C5_EventsTaggedErrorsUntagged ==
  /\ Len(merged) = SumLen(yielded, AllPaths)
  /\ \A p \in AllPaths : ItemsOf(merged, p) = [i \in 1..Len(OkEvents(yielded[p])) |-> Ok(OkEvents(yielded[p])[i])]
  /\ \A i \in 1..Len(merged) :
       merged[i].item.tag = "Err" =>
         /\ merged[i].path = NoPath
         /\ i = Len(merged)
         /\ Last(yielded[merged[i].item.err.dev]) = merged[i].item
  /\ \A p \in AllPaths : \A i \in 1..Len(yielded[p]) :
       yielded[p][i].tag = "Err" => i = Len(yielded[p])

\* an event of the second source was forwarded with its path, then an
\* error item of the first source
C5_Witness ==
  /\ Len(merged) = 2
  /\ merged[1].path = 2
  /\ merged[1].item.tag = "Ok"
  /\ merged[2].item.tag = "Err"
  /\ merged[2].item.err.dev = 1

\* C6: when the open of an enumerated path fails, the call is over with the
\* AsyncDeviceNew error of the first such path, no device is left open and
\* no event was pulled from any device.
C6_FailFast ==
  (pc # "start" /\ ~globErr /\ Range(paths) \cap unopenable # {}) =>
    /\ pc = "done"
    /\ result.kind = "Err"
    /\ result.error.kind = "AsyncDeviceNew"
    /\ result.error.source.kind = "ENOENT"
    /\ result.error.source.dev \in unopenable
    /\ \A q \in Range(paths) \cap unopenable : result.error.source.dev <= q
    /\ handles = {}
    /\ merged = <<>>
    /\ \A p \in AllPaths : yielded[p] = <<>> /\ injected[p] = <<>>

\* the second of two enumerated devices cannot be opened
C6_Witness ==
  /\ pc = "done"
  /\ paths = <<1, 2>>
  /\ unopenable = {2}
  /\ result.error.kind = "AsyncDeviceNew"

\* a release of a key of the keyboard range, as the specification states it
KeyboardRelease(ev) ==
  ev.type = "EV_KEY" /\ ev.code \in KEY_RESERVED..KEY_MICMUTE /\ ev.value = 0

\* C7: identify_keyboard returns the path of the first keyboard-range key
\* release of the merged stream, having consumed the events up to and
\* including that one and no more; until such an event it does not return.
C7_FirstKeyboardRelease ==
  op = "identify_keyboard" =>
    /\ result.kind = "Ok" =>
         /\ merged # <<>>
         /\ Last(merged).item.tag = "Ok"
         /\ KeyboardRelease(Last(merged).item.ev)
         /\ result = RetPath(Last(merged).path)
         /\ Last(yielded[result.keeb]) = Last(merged).item
    /\ \A i \in 1..Len(merged) :
         (merged[i].item.tag = "Ok" /\ KeyboardRelease(merged[i].item.ev))
           => (i = Len(merged) /\ result.kind = "Ok")

\* a press and then a release of a key from path 2: two events consumed
C7_Witness ==
  /\ op = "identify_keyboard"
  /\ result = RetPath(2)
  /\ merged = << [path |-> 2, item |-> Ok(Ev("EV_KEY", KEY_MICMUTE, 1))],
                 [path |-> 2, item |-> Ok(Ev("EV_KEY", KEY_MICMUTE, 0))] >>

\* C8: in identify_keyboard, after a key release with a code above the
\* keyboard range was consumed, the loop goes on: nothing is returned.
C8_OutOfRangeReleaseIgnored ==
  (/\ op = "identify_keyboard"
   /\ merged # <<>>
   /\ Last(merged).item.tag = "Ok"
   /\ Last(merged).item.ev.type = "EV_KEY"
   /\ Last(merged).item.ev.value = 0
   /\ Last(merged).item.ev.code > KEY_MICMUTE)
  => (pc = "loop" /\ result = NoResult)

\* a gamepad button release from path 2 was passed over and the keyboard
\* found later is path 1
C8_Witness ==
  /\ op = "identify_keyboard"
  /\ Len(merged) = 2
  /\ merged[1] = [path |-> 2, item |-> Ok(Ev("EV_KEY", BTN_TRIGGER, 0))]
  /\ result = RetPath(1)

\* the evidence of identify_mkb, as the specification states it
MouseButtons == {BTN_LEFT, BTN_RIGHT, BTN_MIDDLE, BTN_EXTRA, BTN_SIDE}
MouseEvidence(ev) ==
  \/ ev.type = "EV_KEY" /\ ev.code \in MouseButtons
  \/ ev.type = "EV_REL" /\ ev.code \in {REL_X, REL_Y, REL_WHEEL, REL_HWHEEL}
KeyEvidence(ev) ==
  ev.type = "EV_KEY" /\ ev.value = 0 /\ ev.code \notin MouseButtons

\* the positions of the merged stream that hold an event with property P
Positions(P(_)) ==
  {i \in 1..Len(merged) : merged[i].item.tag = "Ok" /\ P(merged[i].item.ev)}
Lowest(S) == CHOOSE i \in S : \A j \in S : i <= j

\* C9: as soon as the merged stream of identify_mkb has carried a
\* mouse-indicative event and a key release that is not a mouse button, in
\* either order, the call has returned the pair (K, M) of the path K of the
\* first such key release and the path M of the first mouse-indicative event.
C9_SlotsFilledInArrivalOrder ==
  (/\ op = "identify_mkb"
   /\ Positions(KeyEvidence) # {}
   /\ Positions(MouseEvidence) # {})
  => result = RetPair(merged[Lowest(Positions(KeyEvidence))].path,
                      merged[Lowest(Positions(MouseEvidence))].path)

\* a mouse axis event from path 2 and then a gamepad button release from
\* path 1: the pair is (1, 2)
C9_Witness ==
  /\ op = "identify_mkb"
  /\ merged = << [path |-> 2, item |-> Ok(Ev("EV_REL", REL_X, 1))],
                 [path |-> 1, item |-> Ok(Ev("EV_KEY", BTN_TRIGGER, 0))] >>
  /\ result = RetPair(1, 2)

\* C10: a filled slot of identify_mkb keeps its path in every later step.
C10_FilledSlotKept ==
  [][/\ keeb_path # NoPath => keeb_path' = keeb_path
     /\ mouse_path # NoPath => mouse_path' = mouse_path]_vars

\* the mouse slot holds path 1 although a mouse-indicative event of path 2
\* came after the one of path 1
C10_Witness ==
  /\ op = "identify_mkb"
  /\ Len(merged) = 2
  /\ merged[1].path = 1 /\ MouseEvidence(merged[1].item.ev)
  /\ merged[2].path = 2 /\ MouseEvidence(merged[2].item.ev)
  /\ mouse_path = 1
  /\ keeb_path = NoPath

\* C11: identify_mkb returns exactly when the event just processed leaves
\* both slots filled: its result is the pair of the two slots, the last
\* event pulled is the first evidence of one of the two kinds, and while the
\* loop runs a slot is empty.
C11_ReturnsWhenBothFilled ==
  op = "identify_mkb" =>
    /\ result.kind = "Ok" =>
         /\ keeb_path # NoPath
         /\ mouse_path # NoPath
         /\ result = RetPair(keeb_path, mouse_path)
         /\ pc = "done"
         /\ Positions(KeyEvidence) # {}
         /\ Positions(MouseEvidence) # {}
         /\ \/ Lowest(Positions(KeyEvidence)) = Len(merged)
            \/ Lowest(Positions(MouseEvidence)) = Len(merged)
    /\ pc = "loop" => (keeb_path = NoPath \/ mouse_path = NoPath)

\* a key release of path 1 and then a mouse button of path 2 ended the call
C11_Witness ==
  /\ op = "identify_mkb"
  /\ Len(merged) = 2
  /\ merged[1] = [path |-> 1, item |-> Ok(Ev("EV_KEY", KEY_MICMUTE, 0))]
  /\ merged[2] = [path |-> 2, item |-> Ok(Ev("EV_KEY", BTN_LEFT, 0))]
  /\ result = RetPair(1, 2)

\* C12: a merged stream that ends before a decision makes the call fail
\* with EventStreamEnded, which carries no I/O error and is not the
\* ReadEvent error (that one only follows an error item); identify_mkb
\* never returns a pair with an empty slot.
C12_StreamEndedError ==
  op \in Classifiers =>
    /\ (pc = "done" /\ ~globErr /\ paths = <<>>) =>
         result = RetErr(IdErr("EventStreamEnded", NoErr))
    /\ result.error.kind = "EventStreamEnded" =>
         /\ result.kind = "Err"
         /\ result.error.source = NoErr
         /\ merged = <<>> \/ Last(merged).item.tag # "Err"
         /\ ~(keeb_path # NoPath /\ mouse_path # NoPath)
    /\ result.error.kind = "ReadEvent" =>
         /\ merged # <<>>
         /\ Last(merged).item.tag = "Err"
         /\ result.error.source = Last(merged).item.err
    /\ (op = "identify_mkb" /\ result.kind = "Ok") =>
         (result.keeb # NoPath /\ result.mouse # NoPath)

\* identify_mkb over a stream that ended at once
C12_Witness ==
  /\ op = "identify_mkb"
  /\ pc = "done"
  /\ result.error.kind = "EventStreamEnded"
  /\ keeb_path = NoPath
  /\ mouse_path = NoPath

\* C13: an error item of the merged stream is its last item: the call has
\* returned the ReadEvent error that carries it, whatever device it is from
\* and whatever events wait behind it.
C13_ReadErrorReturnedAtOnce ==
  op \in Classifiers =>
    \A i \in 1..Len(merged) :
      merged[i].item.tag = "Err" =>
        /\ i = Len(merged)
        /\ pc = "done"
        /\ result = RetErr(IdErr("ReadEvent", merged[i].item.err))

\* path 1 is the mouse and holds an undelivered key release; the error of
\* path 2 ended the call
C13_Witness ==
  /\ op = "identify_mkb"
  /\ mouse_path = 1
  /\ keeb_path = NoPath
  /\ result.error.kind = "ReadEvent"
  /\ result.error.source.dev = 2
  /\ kq[1] \o buf[1] # <<>>
  /\ KeyEvidence(Head(buf[1] \o kq[1]))

\* C14: the pair identify_mkb returns holds two different paths.
C14_DistinctPaths ==
  (op = "identify_mkb" /\ result.kind = "Ok") => result.keeb # result.mouse

\* C15: a call holds one device handle per enumerated path while it loops,
\* none before, and none once it has returned, with a result or an error,
\* also from a construction that failed part-way, or was abandoned.
C15_NoHandleLeak ==
  /\ pc \in {"start", "done", "abandoned"} => handles = {}
  /\ pc = "loop" =>
       /\ handles = Range(paths)
       /\ Cardinality(handles) = Len(paths)

\* a call over two open devices was abandoned after it pulled an event
C15_Witness ==
  /\ pc = "abandoned"
  /\ Len(paths) = 2
  /\ Len(merged) = 1
  /\ handles = {}

\* =========================================== capabilities of a new device
\* Event types in the order EventCode::iter walks them, and the highest code
\* of each.  Every number up to a type's highest code counts as a code: the
\* numbers without a name in between are skipped by the iterator and change
\* neither where a walk starts nor where it stops.  The walk ends after
\* the last EV_ABS code; the types behind it are left out.
KEY_MAX == 767
REL_MAX == 15
ABS_X == 0
ABS_MAX == 63
BTN_0 == 256
BTN_9 == 265
BTN_THUMBR == 318
BTN_DPAD_UP == 544
BTN_DPAD_RIGHT == 547

EvTypes == {"EV_KEY", "EV_REL", "EV_ABS"}
TypeMax(t) ==
  CASE t = "EV_KEY" -> KEY_MAX
    [] t = "EV_REL" -> REL_MAX
    [] t = "EV_ABS" -> ABS_MAX

\* What DeviceWrapper::enable accepts: an EventType or an EventCode
Type(t) == [kind |-> "type", type |-> t, code |-> 0]
Code(t, c) == [kind |-> "code", type |-> t, code |-> c]
NoCode == [kind |-> "none", type |-> "", code |-> 0]
Caps ==
  {Type(t) : t \in EvTypes}
    \cup UNION {{Code(t, c) : c \in 0..TypeMax(t)} : t \in EvTypes}

\* EventCodeIterator: the place of code c in the one sequence the iterator
\* walks, type after type and by rising code inside a type
Offset(t) ==
  CASE t = "EV_KEY" -> 0
    [] t = "EV_REL" -> KEY_MAX + 1
    [] t = "EV_ABS" -> KEY_MAX + 1 + REL_MAX + 1
Pos(c) == Offset(c.type) + c.code
LastPos == Offset("EV_ABS") + ABS_MAX
CodeAt(i) ==
  IF i >= Offset("EV_ABS") THEN Code("EV_ABS", i - Offset("EV_ABS"))
  ELSE IF i >= Offset("EV_REL") THEN Code("EV_REL", i - Offset("EV_REL"))
  ELSE Code("EV_KEY", i)

\* A device handle being set up: the capabilities enabled so far, the one
\* capability it rejects (NoCode: none), and whether every call succeeded
NewDevice(bad) == [caps |-> {}, bad |-> bad, ok |-> TRUE]

\* DeviceWrapper::enable followed by `?`: after a failure nothing else runs
enable(h, c) ==
  IF ~h.ok THEN h
  ELSE IF c = h.bad THEN [h EXCEPT !.ok = FALSE]
  ELSE [h EXCEPT !.caps = @ \cup {c}]

\* The loop of enable_codes run to its exit: it leaves at the first code
\* in stops, by the error of enable when the handle rejects that code and
\* by the return otherwise, and at the end of the iterator when there is
\* none.  Every code before the exit is enabled, and the code at the exit
\* too unless it was rejected.
Walk(h, from, stops) ==
  LET stop == IF stops = {} THEN LastPos ELSE Lowest(stops)
      failed == stops # {} /\ CodeAt(stop) = h.bad
      upto == IF failed THEN stop - 1 ELSE stop
  IN [h EXCEPT !.caps = @ \cup {CodeAt(i) : i \in from..upto},
               !.ok = ~failed]

\* enable_codes that walks on past the end code to the end of the iterator
enable_codes_walks_on(h, start, end) ==
  IF ~h.ok THEN h
  ELSE Walk(h, Pos(start),
            {i \in Pos(start)..LastPos : CodeAt(i) = h.bad})

\* enable_codes: enable each code the iterator gives, starting with start,
\* and return right after enabling end
enable_codes(h, start, end) ==
  IF ~h.ok THEN h
  ELSE Walk(h, Pos(start),
            {i \in Pos(start)..LastPos : CodeAt(i) = end \/ CodeAt(i) = h.bad})

enable_keys(h) ==
  enable_codes(enable(h, Type("EV_KEY")),
               Code("EV_KEY", KEY_RESERVED), Code("EV_KEY", KEY_MICMUTE))

enable_mouse(h) ==
  LET h1 == enable(h, Type("EV_REL"))
      h2 == enable(h1, Type("EV_KEY"))
      h3 == enable_codes(h2, Code("EV_KEY", BTN_LEFT),
                         Code("EV_KEY", BTN_EXTRA))
  IN enable_codes(h3, Code("EV_REL", REL_X), Code("EV_REL", REL_MAX))

enable_gamepad(h) ==
  LET h1 == enable(h, Type("EV_KEY"))
      h2 == enable(h1, Type("EV_ABS"))
      h3 == enable_codes(h2, Code("EV_KEY", BTN_0), Code("EV_KEY", BTN_9))
      h4 == enable_codes(h3, Code("EV_KEY", BTN_TRIGGER),
                         Code("EV_KEY", BTN_THUMBR))
  IN enable_codes(h4, Code("EV_KEY", BTN_DPAD_UP),
                  Code("EV_KEY", BTN_DPAD_RIGHT))

\* io::Result<()>
RetUnit == [kind |-> "Ok", keeb |-> NoPath, mouse |-> NoPath,
            error |-> NoIdErr]
RetIo == RetErr(IdErr("Io", IoErr("enable", NoPath)))

\* The caller sets up the capabilities of a new device and gets the result
Enabled(h) ==
  /\ pc = "start"
  /\ enabled' = h.caps
  /\ result' = IF h.ok THEN RetUnit ELSE RetIo
  /\ pc' = "done"
  /\ UNCHANGED <<op, paths, globErr, unopenable, handles, devVars, injected,
                 yielded, merged, keeb_path, mouse_path, last>>

call_enable_keys(bad) ==
  /\ op = "enable_keys"
  /\ Enabled(enable_keys(NewDevice(bad)))

call_enable_mouse(bad) ==
  /\ op = "enable_mouse"
  /\ Enabled(enable_mouse(NewDevice(bad)))

call_enable_gamepad(bad) ==
  /\ op = "enable_gamepad"
  /\ Enabled(enable_gamepad(NewDevice(bad)))

InitEnable ==
  /\ op \in Enablers
  /\ globErr = FALSE
  /\ paths = <<>>
  /\ InitRest

NextEnable ==
  \/ \E bad \in Caps \cup {NoCode} : call_enable_keys(bad)
  \/ \E bad \in Caps \cup {NoCode} : call_enable_mouse(bad)
  \/ \E bad \in Caps \cup {NoCode} : call_enable_gamepad(bad)

\* One capability helper called on a new device
SpecEnable == InitEnable /\ [][NextEnable]_vars

MouseCaps ==
  {Type("EV_REL"), Type("EV_KEY")}
    \cup {Code("EV_KEY", c) : c \in BTN_LEFT..BTN_EXTRA}
    \cup {Code("EV_REL", c) : c \in REL_X..REL_MAX}

\* C16: enable_mouse enables nothing outside the EV_REL type, the EV_KEY
\* type, the buttons BTN_LEFT..BTN_EXTRA and the axes REL_X..REL_MAX, and
\* when it succeeds it has enabled all of them: each walk stopped right
\* after its end code.
C16_MouseCapabilities ==
  (op = "enable_mouse" /\ pc = "done") =>
    /\ enabled \subseteq MouseCaps
    /\ result = RetUnit => enabled = MouseCaps

C16_Witness ==
  /\ op = "enable_mouse"
  /\ result = RetUnit
  /\ Code("EV_KEY", BTN_EXTRA) \in enabled
  /\ Code("EV_REL", REL_MAX) \in enabled

\* C17: the merged stream reports its end to the classifier only when no
\* source is left in it: a step that makes the call fail with
\* EventStreamEnded starts in a state without a live source.
C17_EndsOnlyWhenAllSourcesEnded ==
  [][(result = NoResult /\ result'.error.kind = "EventStreamEnded")
       => (pc = "loop" /\ handles = {})]_vars

\* two live sources, one polled and found Pending, one that gave an item,
\* and the classifier still waits
C17_Witness ==
  /\ op \in Classifiers
  /\ pc = "loop"
  /\ Cardinality(handles) = 2
  /\ Len(merged) = 1
  /\ \E p \in handles : yielded[p] = <<>> /\ ~notified[p]
  /\ result = NoResult

InitAny == Init \/ InitSource

NextAny ==
  \/ Next
  \/ stream_open
  \/ \E p \in AllPaths, f \in Faults : \E n \in Batch(p) :
       stream_next(p, n, f)

\* An AsyncDevice under any of its consumers: polled as a plain stream or
\* as a source of the merged stream of a classifier
SpecAny == InitAny /\ [][NextAny]_vars

\* C20: no poll of an AsyncDevice completes with the end of the stream,
\* whatever it gave before: each item a plain consumer got is an event or
\* an error, and in a classifier every enumerated device is still a source
\* of the merged stream while the loop runs.  So the call fails with
\* EventStreamEnded exactly when the enumeration succeeded with no path at
\* all, and then before any item was pulled.
C20_StreamEndedIffNoDevice ==
  /\ op = "stream" =>
       /\ \A p \in AllPaths : \A i \in 1..Len(yielded[p]) :
            yielded[p][i].tag \in {"Ok", "Err"}
       /\ last.res.kind = "Ready" => last.res.item.tag \in {"Ok", "Err"}
  /\ op \in Classifiers =>
       /\ pc = "loop" => handles = Range(paths)
       /\ (pc = "done" /\ result.error.kind = "EventStreamEnded")
            <=> (pc = "done" /\ ~globErr /\ paths = <<>>)
       /\ result.error.kind = "EventStreamEnded" =>
            /\ merged = <<>>
            /\ \A p \in AllPaths : yielded[p] = <<>> /\ injected[p] = <<>>

\* a device that gave an error item is polled again and gives an event
C20_Witness ==
  /\ op = "stream"
  /\ \E p \in handles :
       /\ Len(yielded[p]) = 2
       /\ yielded[p][1].tag = "Err"
       /\ yielded[p][2].tag = "Ok"
       /\ last.res = Ready(yielded[p][2])

\* identify_mkb pulls the release of a mouse button while the mouse slot
\* is filled and the keyboard slot is empty
ButtonReleaseAfterMouse ==
  /\ op = "identify_mkb"
  /\ mouse_path # NoPath
  /\ keeb_path = NoPath
  /\ Len(merged') = Len(merged) + 1
  /\ Last(merged').item.tag = "Ok"
  /\ Last(merged').item.ev.type = "EV_KEY"
  /\ Last(merged').item.ev.code \in MouseButtons
  /\ Last(merged').item.ev.value = 0

\* C18 as the specification states it: the release of a mouse button that
\* arrives when the mouse slot is filled and the keyboard slot is empty
\* fills the keyboard slot with its path.
C18_ButtonReleaseFillsKeyboard ==
  [][ButtonReleaseAfterMouse => keeb_path' = Last(merged').path]_vars

\* C18, amended: the arm of the mouse-indicative codes takes the event
\* whether or not the mouse slot is empty, so such an event never reaches
\* the keyboard arm: the release of a mouse button that arrives when the
\* mouse slot is filled and the keyboard slot is empty changes no slot and
\* the loop goes on, and the keyboard slot is only ever filled by a key
\* release whose code is not a mouse button.
C18_ButtonReleaseFillsNoSlot ==
  [][/\ ButtonReleaseAfterMouse =>
          /\ keeb_path' = NoPath
          /\ mouse_path' = mouse_path
          /\ pc' = "loop"
     /\ keeb_path' # keeb_path =>
          /\ Last(merged').item.tag = "Ok"
          /\ KeyEvidence(Last(merged').item.ev)
          /\ keeb_path' = Last(merged').path]_vars

\* path 1 moved the pointer, then path 2 released the left button: the
\* keyboard slot is still empty and the loop goes on
C18_Witness ==
  /\ op = "identify_mkb"
  /\ pc = "loop"
  /\ Len(merged) = 2
  /\ merged[1] = [path |-> 1, item |-> Ok(Ev("EV_REL", REL_X, 1))]
  /\ merged[2] = [path |-> 2, item |-> Ok(Ev("EV_KEY", BTN_LEFT, 0))]
  /\ mouse_path = 1
  /\ keeb_path = NoPath

\* The consumer keeps polling: a poll that finds the descriptor in order is
\* never put off for ever.  The reactor's notification needs no fairness of
\* its own: Inject delivers it together with the event.
SpecSourceLive ==
  /\ SpecSource
  /\ WF_vars(stream_open)
  /\ WF_vars(\E p \in AllPaths : \E n \in Batch(p) : stream_next(p, n, "none"))

\* C19: under a consumer that keeps polling, every event the kernel
\* delivered to an open device is eventually yielded, also when polls in
\* between met a would-block or an error, and no poll completes with an
\* empty result.
C19_EveryEventEventuallyYielded ==
  /\ [](last.res.kind = "Ready" => last.res.item.tag # "none")
  /\ \A p \in AllPaths : \A k \in 1..MaxInject :
       (p \in handles /\ Len(injected[p]) >= k)
         ~> (Len(OkEvents(yielded[p])) >= k)

\* both events of a device were yielded, the latest poll met a would-block
\* and its retry found nothing more
C19_Witness ==
  /\ op = "stream"
  /\ last.path # NoPath
  /\ Len(injected[last.path]) = 2
  /\ OkEvents(yielded[last.path]) = injected[last.path]
  /\ last.retries = 1
  /\ last.res = Pending
====
